---- MODULE Spec2Model ----
(***************************************************************************)
(* A model of the PMC open-access downloader (src/download.py): the        *)
(* per-identifier pipeline download_pmc_pdf with its helpers, the          *)
(* identifier extractor, and the concurrent orchestrator of the main       *)
(* block.  The functions of the source are operators computed the way the *)
(* code computes them; the network and the archive contents are inputs.    *)
(***************************************************************************)
EXTENDS Integers, Sequences, FiniteSets, TLC

\* ----------------------------------------------------------------------
\* Program constants
\* ----------------------------------------------------------------------
MAX_RETRIES == 3
RETRY_SLEEP == 2
\* max_len of _sanitize_filename (src/adjust_names.py)
MAX_LEN == 200
MAX_CONCURRENT == 5

\* ----------------------------------------------------------------------
\* Bounds of the model
\* ----------------------------------------------------------------------
\* parts (chunks) a streamed response body has at most
MaxParts == 2
\* members an archive of the retrieval scenarios has at most
MaxMembers == 2
\* recorded size (in bytes) of an archive member, at most
MaxSize == 2
\* members of the lists _choose_best_pdf is applied to, at most
MaxChoose == 3
\* values one call of _extract_pmcids_from_values is given, at most
MaxVals == 3
\* identifiers in the input table of a run (Spec)
NumIds == 3
\* identifiers beyond MAX_CONCURRENT in the input table of a run (SpecPool)
ExtraIds == 1
\* runs of the program in a row, over the same input and output directory
MaxRuns == 2
\* rows of the input tables load_pmcids is applied to (SpecLoad), at most
MaxRows == 2
\* identifiers in the map copy_pdfs_for_map is given (SpecCopy), at most
MaxMap == 2

\* ----------------------------------------------------------------------
\* Files: a path either holds no file or a file with its bytes
\* ----------------------------------------------------------------------
Range(q) == {q[k] : k \in DOMAIN q}

NoFile == [exists |-> FALSE, data |-> <<>>]

FileOf(d) == [exists |-> TRUE, data |-> d]

\* os.path.exists(p) and os.path.getsize(p) > 0
ExistsNonEmpty(f) == f.exists /\ Len(f.data) > 0

\* os.path.exists(p) and os.path.getsize(p) == 0, then os.remove(p)
RemoveIfEmpty(f) == IF f.exists /\ Len(f.data) = 0 THEN NoFile ELSE f

\* ----------------------------------------------------------------------
\* URLs
\* ----------------------------------------------------------------------
NoneUrl == [scheme |-> "None", host |-> "", path |-> ""]

NCBI_FTP_HOST == "ftp.ncbi.nlm.nih.gov"

Url(s, h, p) == [scheme |-> s, host |-> h, path |-> p]

\* url.startswith("ftp://ftp.ncbi.nlm.nih.gov") -> the https mirror
_ftp_to_https(url) ==
    IF url.scheme = "ftp" /\ url.host = NCBI_FTP_HOST
    THEN [url EXCEPT !.scheme = "https"]
    ELSE url

\* ----------------------------------------------------------------------
\* _http_get: the retry loop.  outs[k] is what the server does at the k-th
\* attempt ("ok": a 2xx response; "timeout": a transport error;
\* "http_error": a non-2xx response, raised by raise_for_status).
\* ----------------------------------------------------------------------
AttemptOutcomes == {"ok", "timeout", "http_error"}

\* SESSION.get(url) followed by r.raise_for_status(): requests only speaks
\* http(s); any other scheme raises InvalidSchema before anything is sent.
SessionGet(url, o) ==
    IF url.scheme \in {"http", "https"} THEN o ELSE "invalid_schema"

NoError == [kind |-> "none", at |-> 0]

RECURSIVE HttpLoop(_, _, _, _, _)
\* the for loop: last_err is the exception of the latest failed attempt (its
\* kind, and the attempt that raised it), waits the time.sleep calls made
HttpLoop(url, outs, attempt, last_err, waits) ==
    IF attempt > MAX_RETRIES
    THEN [raised |-> TRUE, err |-> last_err, attempts |-> attempt - 1,
          sleeps |-> Len(waits), waits |-> waits]
    ELSE LET o == SessionGet(url, outs[attempt]) IN
         IF o = "ok"
         THEN [raised |-> FALSE, err |-> NoError, attempts |-> attempt,
               sleeps |-> Len(waits), waits |-> waits]
         ELSE HttpLoop(url, outs, attempt + 1, [kind |-> o, at |-> attempt],
                       IF attempt < MAX_RETRIES THEN Append(waits, RETRY_SLEEP) ELSE waits)

\* a single attempt, whose error is raised at once
_http_get_once(url, outs) == HttpLoop(url, outs, MAX_RETRIES, NoError, <<>>)

_http_get(url, outs) == HttpLoop(url, outs, 1, NoError, <<>>)

\* the attempts of a server that fails the first `fails` attempts
FailFirst(fails) ==
    [k \in 1..MAX_RETRIES |-> IF k <= fails THEN "timeout" ELSE "ok"]

\* ----------------------------------------------------------------------
\* _parse_oa_record.  A document is well-formed or not; a well-formed one
\* has a sequence of record elements, each a sequence of link elements.
\* ----------------------------------------------------------------------
RECURSIVE FindLink(_, _)
\* record.find(".//link[@format='fmt']"): the first such link, or None
FindLink(links, fmt) ==
    IF links = <<>> THEN NoneUrl
    ELSE IF Head(links).format = fmt THEN Head(links).href
    ELSE FindLink(Tail(links), fmt)

\* record.find called without the "record is None" check
_parse_oa_record_nocheck(xml) ==
    IF ~xml.wellformed \/ xml.records = <<>>
    THEN [raised |-> TRUE, pdf_url |-> NoneUrl, tgz_url |-> NoneUrl]
    ELSE LET record == Head(xml.records)
             pdf_el == FindLink(record, "pdf")
             tgz_el == FindLink(record, "tgz")
         IN  [raised |-> FALSE,
              pdf_url |-> IF pdf_el # NoneUrl THEN _ftp_to_https(pdf_el) ELSE NoneUrl,
              tgz_url |-> IF tgz_el # NoneUrl THEN _ftp_to_https(tgz_el) ELSE NoneUrl]

_parse_oa_record(xml) ==
    IF ~xml.wellformed
    THEN [raised |-> TRUE, pdf_url |-> NoneUrl, tgz_url |-> NoneUrl]
    ELSE IF xml.records = <<>>
    THEN [raised |-> FALSE, pdf_url |-> NoneUrl, tgz_url |-> NoneUrl]
    ELSE LET record == Head(xml.records)
             pdf_el == FindLink(record, "pdf")
             tgz_el == FindLink(record, "tgz")
         IN  [raised |-> FALSE,
              pdf_url |-> IF pdf_el # NoneUrl THEN _ftp_to_https(pdf_el) ELSE NoneUrl,
              tgz_url |-> IF tgz_el # NoneUrl THEN _ftp_to_https(tgz_el) ELSE NoneUrl]

\* ----------------------------------------------------------------------
\* _save_stream_to_file.  A response body arrives in parts; fail_at = 0 is
\* a body that arrives whole, fail_at = k >= 1 a transport error raised when
\* the k-th part is fetched.
\* ----------------------------------------------------------------------
RECURSIVE Concat(_)
Concat(parts) ==
    IF parts = <<>> THEN <<>> ELSE Head(parts) \o Concat(Tail(parts))

\* the whole body of a response
Content(resp) == Concat(resp.parts)

RECURSIVE WriteParts(_, _, _)
\* the loop over resp.iter_content: f.write(part) for every non-empty part
WriteParts(resp, k, written) ==
    IF resp.fail_at = k
    THEN [file |-> FileOf(written), raised |-> TRUE]
    ELSE IF k > Len(resp.parts)
    THEN [file |-> FileOf(written), raised |-> FALSE]
    ELSE WriteParts(resp, k + 1,
                    IF resp.parts[k] # <<>> THEN written \o resp.parts[k] ELSE written)

\* open(out_path, "wb") truncates; the parts are then appended
_save_stream_to_file(resp) == WriteParts(resp, 1, <<>>)

\* ----------------------------------------------------------------------
\* Archive members and _choose_best_pdf
\* ----------------------------------------------------------------------
LowerChar(c) ==
    CASE c = "P" -> "p" [] c = "D" -> "d" [] c = "F" -> "f"
      [] c = "T" -> "t" [] c = "X" -> "x" [] OTHER -> c

\* str.lower()
Lower(s) == [k \in 1..Len(s) |-> LowerChar(s[k])]

\* str.endswith(suffix)
EndsWith(s, suffix) ==
    /\ Len(s) >= Len(suffix)
    /\ SubSeq(s, Len(s) - Len(suffix) + 1, Len(s)) = suffix

DotPdf == <<".", "p", "d", "f">>

\* m.isfile() and m.name.lower().endswith(".pdf")
IsPdfMember(m) == m.isfile /\ EndsWith(Lower(m.name), DotPdf)

RECURSIVE SelectPdf(_)
\* the list comprehension: the members that qualify, in archive order
SelectPdf(members) ==
    IF members = <<>> THEN <<>>
    ELSE IF IsPdfMember(Head(members))
    THEN <<Head(members)>> \o SelectPdf(Tail(members))
    ELSE SelectPdf(Tail(members))

\* the sort key: m.size or 0
SizeKey(m) == m.size

RECURSIVE InsertDesc_unstable(_, _)
\* an insertion that puts m before the members that are as large
InsertDesc_unstable(sorted, m) ==
    IF sorted = <<>> THEN <<m>>
    ELSE IF SizeKey(Head(sorted)) > SizeKey(m)
    THEN <<Head(sorted)>> \o InsertDesc_unstable(Tail(sorted), m)
    ELSE <<m>> \o sorted

RECURSIVE InsertDesc(_, _)
\* m inserted into a list sorted by decreasing size, after every member that
\* is as large (list.sort is stable, also with reverse=True)
InsertDesc(sorted, m) ==
    IF sorted = <<>> THEN <<m>>
    ELSE IF SizeKey(Head(sorted)) >= SizeKey(m)
    THEN <<Head(sorted)>> \o InsertDesc(Tail(sorted), m)
    ELSE <<m>> \o sorted

RECURSIVE SortDesc(_, _)
\* pdf_members.sort(key=size, reverse=True)
SortDesc(members, sorted) ==
    IF members = <<>> THEN sorted
    ELSE SortDesc(Tail(members), InsertDesc(sorted, Head(members)))

NoMember == [name |-> <<>>, isfile |-> FALSE, size |-> 0, data |-> <<>>]

_choose_best_pdf(members) ==
    LET pdf_members == SelectPdf(members) IN
    IF pdf_members = <<>> THEN NoMember
    ELSE SortDesc(pdf_members, <<>>)[1]

\* ----------------------------------------------------------------------
\* _extract_pdf_from_tgz.  The bytes of a downloaded archive are one token
\* that tarfile decodes: readable says whether tarfile.open / getmembers
\* accept it, read_ok whether the chosen member's bytes can be read.
\* ----------------------------------------------------------------------
Unreadable == [readable |-> FALSE, members |-> <<>>, read_ok |-> FALSE]

\* tarfile.open(tgz_path, "r:gz"): what the bytes on disk decode to
TarOpen(tgz_file) ==
    IF tgz_file.exists /\ Len(tgz_file.data) = 1 THEN tgz_file.data[1] ELSE Unreadable

_extract_pdf_from_tgz(tgz_file, out_file) ==
    LET tf == TarOpen(tgz_file) IN
    IF ~tf.readable THEN [ok |-> FALSE, file |-> out_file]
    ELSE LET best == _choose_best_pdf(tf.members) IN
         IF best = NoMember THEN [ok |-> FALSE, file |-> out_file]
         \* tf.extractfile(best) is None for a member that is no regular file
         ELSE IF ~best.isfile THEN [ok |-> FALSE, file |-> out_file]
         \* open(out_pdf_path, "wb") comes before fobj.read()
         ELSE IF ~tf.read_ok THEN [ok |-> FALSE, file |-> FileOf(<<>>)]
         ELSE [ok |-> TRUE, file |-> FileOf(best.data)]

\* ----------------------------------------------------------------------
\* download_pmc_pdf
\* ----------------------------------------------------------------------
ApiUrl == Url("https", "www.ncbi.nlm.nih.gov", "oa.fcgi")

\* a temporary directory that is left behind
TemporaryDirectoryExit_keep(tgz_file) == tgz_file

\* leaving the "with tempfile.TemporaryDirectory()" block, on every path
TemporaryDirectoryExit(tgz_file) == NoFile

Returned(ret, file, msg, api_gets, pdf_gets, tgz_gets, sleeps, tmp) ==
    [ret |-> ret, file |-> file, msg |-> msg, api_gets |-> api_gets,
     pdf_gets |-> pdf_gets, tgz_gets |-> tgz_gets, sleeps |-> sleeps, tmp |-> tmp]

\* Case 1 with a caller that tries the whole download once more when it failed
DirectRoute_again(out_file, pdf_url, pdf) ==
    LET r == _http_get(pdf_url, FailFirst(pdf.fails)) IN
    IF r.raised
    THEN [done |-> FALSE, file |-> out_file, gets |-> r.attempts + r.attempts,
          sleeps |-> r.sleeps + r.sleeps]
    ELSE LET saved == _save_stream_to_file(pdf.resp) IN
         [done |-> ~saved.raised, file |-> saved.file,
          gets |-> r.attempts, sleeps |-> r.sleeps]

\* Case 1, the direct PDF: done says the function returns True from here
DirectRoute(out_file, pdf_url, pdf) ==
    LET r == _http_get(pdf_url, FailFirst(pdf.fails)) IN
    IF r.raised
    THEN [done |-> FALSE, file |-> out_file, gets |-> r.attempts, sleeps |-> r.sleeps]
    ELSE LET saved == _save_stream_to_file(pdf.resp) IN
         [done |-> ~saved.raised, file |-> saved.file,
          gets |-> r.attempts, sleeps |-> r.sleeps]

\* Case 2, the TGZ: the value download_pmc_pdf returns from here
ArchiveRoute(out_file, tgz_url, tgz) ==
    LET r == _http_get(tgz_url, FailFirst(tgz.fails)) IN
    IF r.raised
    THEN [ret |-> "False", file |-> out_file, msg |-> "tgz_error",
          gets |-> r.attempts, sleeps |-> r.sleeps,
          tmp |-> TemporaryDirectoryExit(NoFile)]
    ELSE LET saved == _save_stream_to_file(tgz.resp) IN
         IF saved.raised
         THEN [ret |-> "False", file |-> out_file, msg |-> "tgz_error",
               gets |-> r.attempts, sleeps |-> r.sleeps,
               tmp |-> TemporaryDirectoryExit(saved.file)]
         ELSE LET ex == _extract_pdf_from_tgz(saved.file, out_file) IN
              IF ex.ok
              THEN [ret |-> "True", file |-> ex.file, msg |-> "extracted",
                    gets |-> r.attempts, sleeps |-> r.sleeps,
                    tmp |-> TemporaryDirectoryExit(saved.file)]
              ELSE [ret |-> "False", file |-> RemoveIfEmpty(ex.file),
                    msg |-> "no_pdf_in_tgz",
                    gets |-> r.attempts, sleeps |-> r.sleeps,
                    tmp |-> TemporaryDirectoryExit(saved.file)]

NoDirect(out_file) == [done |-> FALSE, file |-> out_file, gets |-> 0, sleeps |-> 0]

\* a direct download that failed returns False at once (no archive route)
Fallback_abort(direct, rec, api, scen) ==
    Returned("False", direct.file, "direct_failed", api.attempts, direct.gets, 0,
             api.sleeps + direct.sleeps, NoFile)

\* what follows Case 1 when it did not return: Case 2, or "No OA PDF or TGZ"
Fallback(direct, rec, api, scen) ==
    IF rec.tgz_url # NoneUrl
    THEN LET a == ArchiveRoute(direct.file, rec.tgz_url, scen.tgz) IN
         Returned(a.ret, a.file, a.msg, api.attempts, direct.gets, a.gets,
                  api.sleeps + direct.sleeps + a.sleeps, a.tmp)
    ELSE Returned("False", direct.file, "no_oa", api.attempts, direct.gets, 0,
                  api.sleeps + direct.sleeps, NoFile)

\* download_pmc_pdf past its skip check: resolution, then the two routes
Retrieve(out_file, scen) ==
    LET api == _http_get(ApiUrl, FailFirst(scen.api)) IN
    IF api.raised
    THEN Returned("False", out_file, "oa_api_error", api.attempts, 0, 0, api.sleeps, NoFile)
    ELSE
    LET rec == _parse_oa_record(scen.xml) IN
    IF rec.raised
    THEN Returned("raise", out_file, "parse_error", api.attempts, 0, 0, api.sleeps, NoFile)
    ELSE
    LET direct == IF rec.pdf_url # NoneUrl
                  THEN DirectRoute(out_file, rec.pdf_url, scen.pdf)
                  ELSE NoDirect(out_file)
    IN
    IF direct.done
    THEN Returned("True", direct.file, "direct", api.attempts, direct.gets, 0,
                  api.sleeps + direct.sleeps, NoFile)
    ELSE Fallback(direct, rec, api, scen)

\* the pipeline without the "already downloaded" check
download_pmc_pdf_noskip(out_file, scen) == Retrieve(out_file, scen)

\* out_file is the file at <OUTPUT_DIR>/<PMCID>.pdf when the call starts; scen
\* is what the network answers.  ret is "True", "False" or "raise" (an
\* exception leaves the function).
download_pmc_pdf(out_file, scen) ==
    IF ExistsNonEmpty(out_file)
    THEN Returned("True", out_file, "skipped", 0, 0, 0, 0, NoFile)
    ELSE Retrieve(out_file, scen)

\* ----------------------------------------------------------------------
\* _extract_pmcids_from_values.  A text is a sequence of characters.
\* ----------------------------------------------------------------------
Digits == {"0", "1", "2", "3", "4", "5", "6", "7", "8", "9"}

IsDigit(c) == c \in Digits

UpperChar(c) ==
    CASE c = "p" -> "P" [] c = "m" -> "M" [] c = "c" -> "C"
      [] c = "x" -> "X" [] OTHER -> c

\* str.upper()
Upper(s) == [k \in 1..Len(s) |-> UpperChar(s[k])]

\* "PMC" matches at position i, whatever the case (re.IGNORECASE)
PrefixAt(s, i) ==
    /\ i + 2 <= Len(s)
    /\ s[i] \in {"P", "p"} /\ s[i + 1] \in {"M", "m"} /\ s[i + 2] \in {"C", "c"}

RECURSIVE DigitsEnd(_, _)
\* \d+ is greedy: the last position of the run of digits that starts at j
DigitsEnd(s, j) ==
    IF j + 1 <= Len(s) /\ IsDigit(s[j + 1]) THEN DigitsEnd(s, j + 1) ELSE j

NoMatch == <<>>

RECURSIVE SearchFrom(_, _)
\* re.search(r"(PMC\d+)", val, flags=re.IGNORECASE) scans from the left and
\* stops at the first position where the pattern matches; group(1) is the span
SearchFrom(s, i) ==
    IF i + 3 > Len(s) THEN NoMatch
    ELSE IF PrefixAt(s, i) /\ IsDigit(s[i + 3])
    THEN SubSeq(s, i, DigitsEnd(s, i + 3))
    ELSE SearchFrom(s, i + 1)

ReSearch(val) == SearchFrom(val, 1)

\* one turn of the loop "for val in values": st.seen is the set seen, st.out
\* the identifiers yielded so far; the identifier is compared as it was matched
ExtractStep_nocase(st, val) ==
    LET m == ReSearch(val) IN
    IF m = NoMatch THEN st
    ELSE IF m \in st.seen THEN st
    ELSE [seen |-> st.seen \cup {m}, out |-> Append(st.out, Upper(m))]

ExtractStep(st, val) ==
    LET m == ReSearch(val) IN
    IF m = NoMatch THEN st
    ELSE LET pmcid == Upper(m) IN
         IF pmcid \in st.seen THEN st
         ELSE [seen |-> st.seen \cup {pmcid}, out |-> Append(st.out, pmcid)]

ExtractStart == [seen |-> {}, out |-> <<>>]

RECURSIVE ExtractLoop(_, _)
ExtractLoop(values, st) ==
    IF values = <<>> THEN st ELSE ExtractLoop(Tail(values), ExtractStep(st, Head(values)))

\* the identifiers the generator yields, in the order it yields them
_extract_pmcids_from_values(values) == ExtractLoop(values, ExtractStart).out

\* ----------------------------------------------------------------------
\* load_pmcids.  An input file is there or not; one that is there has the
\* rows the csv reader yields, each a sequence of the texts of its cells, and
\* sniff says what csv.Sniffer().has_header makes of its first 2048
\* characters: "header", "plain", or "error" (csv.Error, "Could not determine
\* delimiter": an empty file, a file of bare numbers, rows of unequal length).
\* ----------------------------------------------------------------------
RECURSIVE LoadRows(_, _)
\* pmcids.extend(list(_extract_pmcids_from_values(vals))) for every row
LoadRows(rows, pmcids) ==
    IF rows = <<>> THEN pmcids
    ELSE LoadRows(Tail(rows), pmcids \o _extract_pmcids_from_values(Head(rows)))

\* no deduplication: the list as it was extended
Dedup_keepall(pmcids, seen, unique) == pmcids

RECURSIVE Dedup(_, _, _)
\* "Deduplicate but keep order"
Dedup(pmcids, seen, unique) ==
    IF pmcids = <<>> THEN unique
    ELSE IF Head(pmcids) \in seen THEN Dedup(Tail(pmcids), seen, unique)
    ELSE Dedup(Tail(pmcids), seen \cup {Head(pmcids)}, Append(unique, Head(pmcids)))

\* csv.DictReader takes the first row for the field names and yields the
\* others; csv.reader yields every row
ReaderRows(csv_file) ==
    IF csv_file.sniff = "header" THEN Tail(csv_file.rows) ELSE csv_file.rows

\* raised is the exception that leaves load_pmcids ("none": it returns unique)
load_pmcids(csv_file) ==
    IF ~csv_file.exists
    THEN [raised |-> "FileNotFoundError", unique |-> <<>>]
    ELSE IF csv_file.sniff = "error"
    THEN [raised |-> "csv.Error", unique |-> <<>>]
    ELSE [raised |-> "none",
          unique |-> Dedup(LoadRows(ReaderRows(csv_file), <<>>), {}, <<>>)]

\* pmcid.upper().strip(), and the PMC prefix added when it is missing
NormalizePmcid(pmcid) ==
    LET up == Upper(pmcid) IN
    IF Len(up) >= 3 /\ SubSeq(up, 1, 3) = <<"P", "M", "C">> THEN up
    ELSE <<"P", "M", "C">> \o up

\* ----------------------------------------------------------------------
\* Inputs: what the resolution service, the file servers and the archives
\* may hold
\* ----------------------------------------------------------------------
Hrefs == {Url("ftp", NCBI_FTP_HOST, "/pub/pmc/x"), Url("https", "www.ncbi.nlm.nih.gov", "/pmc/x")}

Links == [format : {"pdf", "tgz"}, href : Hrefs]

\* a record element holds zero, one or two link elements
LinkLists == {<<>>} \cup {<<a>> : a \in Links} \cup {<<a, b>> : a \in Links, b \in Links}

Malformed == [wellformed |-> FALSE, records |-> <<>>]

NoRecord == [wellformed |-> TRUE, records |-> <<>>]

XmlDocs == {Malformed, NoRecord} \cup {[wellformed |-> TRUE, records |-> <<ls>>] : ls \in LinkLists}

PdfBody(n) == [k \in 1..n |-> <<"%PDF">>]

\* a body of up to MaxParts parts, whole or broken off at one of its parts
DirectResponses ==
    UNION {{[parts |-> PdfBody(n), fail_at |-> k] : k \in 0..n} : n \in 0..MaxParts}

NameA == <<"a", ".", "p", "d", "f">>

NameB == <<"b", ".", "P", "D", "F">>

NameTxt == <<"n", ".", "t", "x", "t">>

Names == {NameA, NameB, NameTxt}

\* a regular file of `size` bytes; its bytes tell which member they are from
FileMember(name, size) ==
    [name |-> name, isfile |-> TRUE, size |-> size, data |-> [k \in 1..size |-> name[1]]]

\* a directory entry
DirMember(name) == [name |-> name, isfile |-> FALSE, size |-> 0, data |-> <<>>]

Members == {FileMember(n, s) : n \in Names, s \in 0..MaxSize} \cup {DirMember(n) : n \in Names}

MemberLists(S, max) == UNION {[1..n -> S] : n \in 0..max}

\* the members of the archives a retrieval may meet
UnitMembers == {FileMember(NameA, 0), FileMember(NameA, 1),
                FileMember(NameB, MaxSize), FileMember(NameTxt, MaxSize)}

UnitArchives ==
    {Unreadable} \cup
    {[readable |-> TRUE, members |-> l, read_ok |-> b] :
        l \in MemberLists(UnitMembers, MaxMembers), b \in BOOLEAN}

\* an archive download: the archive in one part, or a transfer that breaks
TgzResponses ==
    {[parts |-> << <<a>> >>, fail_at |-> 0] : a \in UnitArchives} \cup
    {[parts |-> << <<Unreadable>> >>, fail_at |-> 1]}

\* the texts of the cells: up to two segments, each a PMC prefix in some case
\* (or a broken one) followed by digits (or none), with or without other text
\* before, between and after them
Prefixes == {<<"P", "M", "C">>, <<"p", "m", "c">>, <<"P", "m", "C">>, <<"P", "M">>}

DigitRuns == {<<>>, <<"1">>, <<"2">>, <<"1", "2">>}

Segments == {<<>>} \cup {pfx \o d : pfx \in Prefixes, d \in DigitRuns}

Fillers == {<<>>, <<"x">>, <<"/">>}

\* a second identifier, written in lower case, or none
SecondSegments == {<<>>} \cup {<<"p", "m", "c">> \o d : d \in DigitRuns \ {<<>>}}

Texts ==
    {f \o a \o g \o b : f \in {<<>>, <<"x">>}, a \in Segments, g \in Fillers, b \in SecondSegments}

OkFails == 0..(MAX_RETRIES - 1)

PdfFetched == [fails : OkFails, resp : {r \in DirectResponses : r.fail_at = 0}]

PdfFailed == [fails : {MAX_RETRIES}] \cup
             [fails : OkFails, resp : {r \in DirectResponses : r.fail_at # 0}]

TgzOutcomes == [fails : {MAX_RETRIES}] \cup [fails : OkFails, resp : TgzResponses]

HasPdf(xml) == ~_parse_oa_record(xml).raised /\ _parse_oa_record(xml).pdf_url # NoneUrl

HasTgz(xml) == ~_parse_oa_record(xml).raised /\ _parse_oa_record(xml).tgz_url # NoneUrl

\* A scenario says what the network answers to one call of download_pmc_pdf.
\* It has a field only for what that call can ask for: no document when the
\* resolution fails, no file server when the document names none, no archive
\* server once the direct file has arrived.
Scenarios ==
    [api : {MAX_RETRIES}] \cup
    [api : OkFails, xml : {x \in XmlDocs : ~HasPdf(x) /\ ~HasTgz(x)}] \cup
    [api : OkFails, xml : {x \in XmlDocs : HasPdf(x)}, pdf : PdfFetched] \cup
    [api : OkFails, xml : {x \in XmlDocs : HasPdf(x) /\ ~HasTgz(x)}, pdf : PdfFailed] \cup
    [api : OkFails, xml : {x \in XmlDocs : ~HasPdf(x) /\ HasTgz(x)}, tgz : TgzOutcomes] \cup
    [api : OkFails, xml : {x \in XmlDocs : HasPdf(x) /\ HasTgz(x)}, pdf : PdfFailed, tgz : TgzOutcomes]

\* the scenarios tried against an output file that is already there
RerunScenarios == {s \in Scenarios : "tgz" \notin DOMAIN s}

\* the input tables: a row per article, its title and its link, and a last
\* row that names the first article again
DigitChar(k) == <<"1", "2", "3", "4", "5", "6", "7", "8", "9">>[k]

LinkCell(k) == <<"x", "/", "p", "m", "c", DigitChar(k), "/">>

Table(n) ==
    [exists |-> TRUE, sniff |-> "plain",
     rows |-> [k \in 1..n |-> <<<<"x">>, LinkCell(k)>>] \o <<<<<<"P", "M", "C", DigitChar(1)>>>>>>]

\* the same table under a row of column titles, one article shorter
HeaderTable(n) ==
    [exists |-> TRUE, sniff |-> "header",
     rows |-> <<<<<<"t">>, <<"l">>>>>> \o Table(n - 1).rows]

MissingCsv == [exists |-> FALSE, sniff |-> "error", rows |-> <<>>]

\* an input file that is there and holds nothing
EmptyCsv == [exists |-> TRUE, sniff |-> "error", rows |-> <<>>]

PdfLink == [format |-> "pdf", href |-> Url("https", "www.ncbi.nlm.nih.gov", "/pmc/x")]

TgzLink == [format |-> "tgz", href |-> Url("ftp", NCBI_FTP_HOST, "/pub/pmc/x")]

OneRecord(links) == [wellformed |-> TRUE, records |-> <<links>>]

GoodArchive ==
    [readable |-> TRUE, members |-> <<FileMember(NameA, 1), FileMember(NameB, MaxSize)>>,
     read_ok |-> TRUE]

\* the scenarios of a unit of a run: one for each way a unit can end
RunScenarios ==
    {[api |-> MAX_RETRIES],
     [api |-> 0, xml |-> Malformed],
     [api |-> 0, xml |-> OneRecord(<<PdfLink>>),
      pdf |-> [fails |-> 0, resp |-> [parts |-> PdfBody(1), fail_at |-> 0]]],
     [api |-> 0, xml |-> OneRecord(<<PdfLink>>),
      pdf |-> [fails |-> 0, resp |-> [parts |-> PdfBody(0), fail_at |-> 0]]],
     [api |-> 0, xml |-> OneRecord(<<PdfLink>>),
      pdf |-> [fails |-> 0, resp |-> [parts |-> PdfBody(MaxParts), fail_at |-> MaxParts]]],
     [api |-> 0, xml |-> OneRecord(<<PdfLink, TgzLink>>),
      pdf |-> [fails |-> MAX_RETRIES],
      tgz |-> [fails |-> 0, resp |-> [parts |-> << <<GoodArchive>> >>, fail_at |-> 0]]]}

\* the scenario of the runs that fill the pool: every download succeeds
PoolScenarios ==
    {[api |-> 0, xml |-> OneRecord(<<PdfLink>>),
      pdf |-> [fails |-> 0, resp |-> [parts |-> PdfBody(1), fail_at |-> 0]]]}

\* ----------------------------------------------------------------------
\* State
\* ----------------------------------------------------------------------
VARIABLES
    u_pc,      \* one call of download_pmc_pdf: "idle" or "returned"
    u_file,    \* the file at the output path when the call started
    u_scen,    \* the scenario of the call
    u_res,     \* what the call returned
    c_pc,      \* one call of _choose_best_pdf: "idle" or "returned"
    c_members, \* the members it is given
    c_best,    \* the member it returns (NoMember: None)
    x_n,       \* one run of the generator _extract_pmcids_from_values: values consumed
    x_st,      \* its local state: the set seen, and the identifiers yielded
    x_first,   \* the first identifier of each value consumed, without repeats
    x_all,     \* every identifier of the values consumed, without repeats
    x_raw,     \* the matched texts, as they were written
    x_miss,    \* the values consumed that hold no identifier
    csv,       \* the input table of the runs (it may be missing)
    env,       \* the scenarios the network may follow for a unit of a run
    runs_left, \* the runs still to come after this one
    disk,      \* the output directory: the file at <ID>.pdf, for each identifier
    ledger,    \* the file missing_pmcids.txt of the output directory
    m_pc,      \* where the main block is: load, partition, submit, collect,
               \* ledger, done (aborted: an exception left it)
    pmcids,    \* the identifiers loaded
    to_process,
    next_sub,  \* how many of to_process are submitted to the pool
    ok_count,
    fail_count,
    missing_pmcids,
    unit,      \* each identifier's future: none, queued, running, finished, collected
    uret,      \* what each finished unit returned: True, False, raise
    net_used,  \* some GET was sent in this run
    submits,   \* how many times each identifier was submitted in this run
    disk0,     \* the output directory as the run found it
    prev_ledger, \* the ledger the run found, once it has written its own
    ledger_writes, \* how many times this run has written the ledger
    h_pc,      \* one call of _http_get: "idle" or "returned"
    h_url,     \* the URL it is given
    h_outs,    \* what the server does at each attempt
    h_res,     \* what the call returned or raised
    k_pc,      \* one call of copy_pdfs_for_map: "idle", "loop" or "returned"
    k_map,     \* pmc_map: its items, in order
    k_pdf_dir, \* the names of the files of pdf_dir
    k_out,     \* out_dir: the content of each of its files
    k_out0,    \* out_dir as the call found it
    k_dry,     \* dry_run
    k_pos,     \* the items of the map the loop has been through
    k_copied,  \* copied
    k_missing, \* missing
    k_log      \* the lines printed: "Copied" and "Would copy"

uvars == <<u_pc, u_file, u_scen, u_res>>

cvars == <<c_pc, c_members, c_best>>

xvars == <<x_n, x_st, x_first, x_all, x_raw, x_miss>>

hvars == <<h_pc, h_url, h_outs, h_res>>

kvars == <<k_pc, k_map, k_pdf_dir, k_out, k_out0, k_dry, k_pos, k_copied, k_missing, k_log>>

\* what a run of the program is given and what outlives it
evars == <<csv, env>>

\* the variables of the main block and of its pool
mvars == <<m_pc, pmcids, to_process, next_sub, ok_count, fail_count, missing_pmcids>>

pvars == <<unit, uret, submits>>

vars == <<uvars, cvars, xvars, hvars, kvars, evars, runs_left, disk, ledger, mvars, pvars,
          net_used, disk0, prev_ledger, ledger_writes>>

runvars == <<evars, runs_left, disk, ledger, mvars, pvars, net_used, disk0, prev_ledger, ledger_writes,
             ledger_writes>>

NoScen == [api |-> MAX_RETRIES]

NoResponse == [raised |-> FALSE, err |-> NoError, attempts |-> 0, sleeps |-> 0, waits |-> <<>>]

NoRes == Returned("none", NoFile, "none", 0, 0, 0, 0, NoFile)

UnitIdle ==
    /\ u_pc = "idle"
    /\ u_file = NoFile
    /\ u_scen = NoScen
    /\ u_res = NoRes

ChooseIdle ==
    /\ c_pc = "idle"
    /\ c_members = <<>>
    /\ c_best = NoMember

NoLedger == [written |-> FALSE, requested |-> 0, succeeded |-> 0, failed |-> 0, lines |-> <<>>]

\* the identifiers of a table: the files a run over it may write
IdsOfCsv(c) == Range(load_pmcids(c).unique)

\* the output directories a first run may find: each file is not there yet, or
\* is there, whole, from an earlier use of the program
OldDisks(c) == [IdsOfCsv(c) -> {NoFile, FileOf(PdfBody(1))}]

\* the ledger of an earlier use of the output directory, which failed on an
\* article that is in no table now
StaleLedger ==
    [written |-> TRUE, requested |-> 1, succeeded |-> 0, failed |-> 1,
     lines |-> <<<<"P", "M", "C", "0">>>>]

\* an output directory that holds files of an earlier use holds its ledger
OldLedger(d) ==
    IF \E i \in DOMAIN d : d[i].exists THEN StaleLedger ELSE NoLedger

\* a first run about to start, over table c and output directory d
RunStarts(c, e, d) ==
    /\ csv = c
    /\ env = e
    /\ runs_left = MaxRuns - 1
    /\ disk = d
    /\ disk0 = d
    /\ ledger = OldLedger(d)
    /\ prev_ledger = NoLedger
    /\ ledger_writes = 0
    /\ m_pc = "load"
    /\ pmcids = <<>>
    /\ to_process = <<>>
    /\ next_sub = 0
    /\ ok_count = 0
    /\ fail_count = 0
    /\ missing_pmcids = <<>>
    /\ unit = [i \in IdsOfCsv(c) |-> "none"]
    /\ uret = [i \in IdsOfCsv(c) |-> "none"]
    /\ submits = [i \in IdsOfCsv(c) |-> 0]
    /\ net_used = FALSE

RunIdle == RunStarts(MissingCsv, {}, <<>>)

HttpIdle ==
    /\ h_pc = "idle"
    /\ h_url = NoneUrl
    /\ h_outs = <<>>
    /\ h_res = NoResponse

ExtractIdle ==
    /\ x_n = 0
    /\ x_st = ExtractStart
    /\ x_first = <<>>
    /\ x_all = <<>>
    /\ x_raw = {}
    /\ x_miss = 0

\* ----------------------------------------------------------------------
\* The renaming utility (src/adjust_names.py): _sanitize_filename and
\* copy_pdfs_for_map.  A file name is a sequence of characters; a directory
\* is a function from the names of its files to their contents.
\* ----------------------------------------------------------------------
\* the characters of the class [<>:"/\\|?*\n\r\t]
Invalid == {"<", ">", ":", "\"", "/", "\\", "|", "?", "*", "\n", "\r", "\t"}

Whitespace == {" ", "\t", "\n", "\r"}

\* re.sub(invalid, "_", name)
ReplaceInvalid(s) == [k \in 1..Len(s) |-> IF s[k] \in Invalid THEN "_" ELSE s[k]]

RECURSIVE LStrip(_)
LStrip(s) ==
    IF s # <<>> /\ Head(s) \in Whitespace THEN LStrip(Tail(s)) ELSE s

RECURSIVE RStrip(_)
\* str.rstrip()
RStrip(s) ==
    IF s # <<>> /\ s[Len(s)] \in Whitespace THEN RStrip(SubSeq(s, 1, Len(s) - 1)) ELSE s

\* str.strip()
Strip(s) == RStrip(LStrip(s))

RECURSIVE SkipBlanks(_)
\* s without the underscores and the white space it starts with
SkipBlanks(s) ==
    IF s # <<>> /\ Head(s) \in Whitespace \cup {"_"} THEN SkipBlanks(Tail(s)) ELSE s

RECURSIVE Collapse(_)
\* re.sub(r'[_\s]+', " ", out)
Collapse(s) ==
    IF s = <<>> THEN <<>>
    ELSE IF Head(s) \in Whitespace \cup {"_"}
    THEN <<" ">> \o Collapse(SkipBlanks(s))
    ELSE <<Head(s)>> \o Collapse(Tail(s))

Untitled == <<"u", "n", "t", "i", "t", "l", "e", "d">>

_sanitize_filename(name) ==
    LET replaced == Strip(ReplaceInvalid(name))
        collapsed == Strip(Collapse(replaced))
        out == IF Len(collapsed) > MAX_LEN
               THEN RStrip(SubSeq(collapsed, 1, MAX_LEN))
               ELSE collapsed
    IN  IF out = <<>> THEN Untitled ELSE out

\* the places of the dots of p
Dots(p) == {k \in DOMAIN p : p[k] = "."}

\* os.path.splitext of a name without directory: the extension starts at the
\* last dot, unless only dots come before it
SplitExt(p) ==
    IF Dots(p) = {} THEN [base |-> p, ext |-> <<>>]
    ELSE LET dot == CHOOSE k \in Dots(p) : \A j \in Dots(p) : j <= k IN
         IF \A j \in 1..(dot - 1) : p[j] = "."
         THEN [base |-> p, ext |-> <<>>]
         ELSE [base |-> SubSeq(p, 1, dot - 1), ext |-> SubSeq(p, dot, Len(p))]

DecimalDigit(d) == <<"0", "1", "2", "3", "4", "5", "6", "7", "8", "9">>[d + 1]

RECURSIVE Decimal(_)
\* str(i), for i >= 0
Decimal(i) ==
    IF i < 10 THEN <<DecimalDigit(i)>>
    ELSE Decimal(i \div 10) \o <<DecimalDigit(i % 10)>>

\* f"{base} ({i}){ext}"
Suffixed(base, ext, i) == base \o <<" ", "(">> \o Decimal(i) \o <<")">> \o ext

RECURSIVE FirstFree(_, _, _, _)
\* the "while True" loop: the first i, from i on, whose name is not taken
FirstFree(base, ext, i, names) ==
    IF Suffixed(base, ext, i) \notin names THEN Suffixed(base, ext, i)
    ELSE FirstFree(base, ext, i + 1, names)

\* the destination is the name itself, whether it is taken or not
DestPath_plain(dest_name, names) == dest_name

\* dest_path, given the names of the files of out_dir
DestPath(dest_name, names) ==
    IF dest_name \in names
    THEN FirstFree(SplitExt(dest_name).base, SplitExt(dest_name).ext, 1, names)
    ELSE dest_name

\* f"{pmcid.upper()}.pdf"
SrcName(pmcid) == Upper(pmcid) \o DotPdf

\* shutil.copy2(src, dest): dest is created, or overwritten when it is there
Copy2(dir, dest, content) ==
    [n \in DOMAIN dir \cup {dest} |-> IF n = dest THEN content ELSE dir[n]]

\* the identifiers and the titles of the maps
CopyId(k) == <<"P", "M", "C", DigitChar(k)>>

TitleA == <<"a">>

TitleSlash == <<"a", "/">>

TitleNumbered == <<"a", " ", "(", "1", ")">>

TitleBlank == <<"/">>

CopyTitles == {TitleA, TitleSlash, TitleNumbered, TitleBlank}

\* pmc_map, in the order of its items: up to MaxMap identifiers, each with a title
CopyMaps ==
    UNION {{[k \in 1..n |-> [pmcid |-> CopyId(k), title |-> t[k]]] :
              t \in [1..n -> CopyTitles]} : n \in 0..MaxMap}

\* pdf_dir holds the PDF of some of the identifiers
PdfDirs == SUBSET {SrcName(CopyId(k)) : k \in 1..MaxMap}

OldContent == <<"o", "l", "d">>

\* out_dir, as an earlier use of the utility may have left it
OldOutDirs ==
    {[n \in S |-> OldContent] :
        S \in SUBSET {TitleA \o DotPdf, Suffixed(TitleA, DotPdf, 1)}}

CopyIdle ==
    /\ k_pc = "idle"
    /\ k_map = <<>>
    /\ k_pdf_dir = {}
    /\ k_out = <<>>
    /\ k_out0 = <<>>
    /\ k_dry = FALSE
    /\ k_pos = 0
    /\ k_copied = 0
    /\ k_missing = <<>>
    /\ k_log = <<>>

\* ----------------------------------------------------------------------
\* SpecCopy: one call of copy_pdfs_for_map, an item of the map at a time
\* ----------------------------------------------------------------------
InitCopy ==
    /\ UnitIdle /\ ChooseIdle /\ ExtractIdle /\ RunIdle /\ HttpIdle
    /\ k_pc = "loop"
    /\ k_map \in CopyMaps
    /\ k_pdf_dir \in PdfDirs
    /\ k_out \in OldOutDirs
    /\ k_out0 = k_out
    /\ k_dry \in BOOLEAN
    /\ k_pos = 0
    /\ k_copied = 0
    /\ k_missing = <<>>
    /\ k_log = <<>>

\* the item the loop is at
CopyItem == k_map[k_pos + 1]

CopyDest == DestPath(_sanitize_filename(CopyItem.title) \o DotPdf, DOMAIN k_out)

\* the line printed for the item: "Copied" or "Would copy", with the
\* destination, and the names out_dir held at that moment
CopyLine(done) ==
    [pmcid |-> CopyItem.pmcid, dest |-> CopyDest, copied |-> done,
     before |-> DOMAIN k_out]

\* the source is not there: missing.append(pmcid); continue
CopyMissing ==
    /\ k_pc = "loop"
    /\ k_pos < Len(k_map)
    /\ SrcName(CopyItem.pmcid) \notin k_pdf_dir
    /\ k_missing' = Append(k_missing, CopyItem.pmcid)
    /\ k_pos' = k_pos + 1
    /\ UNCHANGED <<k_pc, k_map, k_pdf_dir, k_out, k_out0, k_dry, k_copied, k_log,
                   uvars, cvars, xvars, hvars, runvars>>

\* dry_run: print "Would copy"
CopyDryRun ==
    /\ k_pc = "loop"
    /\ k_pos < Len(k_map)
    /\ SrcName(CopyItem.pmcid) \in k_pdf_dir
    /\ k_dry
    /\ k_log' = Append(k_log, CopyLine(FALSE))
    /\ k_pos' = k_pos + 1
    /\ UNCHANGED <<k_pc, k_map, k_pdf_dir, k_out, k_out0, k_dry, k_copied, k_missing,
                   uvars, cvars, xvars, hvars, runvars>>

\* shutil.copy2(src_path, dest_path); copied += 1
CopyFile ==
    /\ k_pc = "loop"
    /\ k_pos < Len(k_map)
    /\ SrcName(CopyItem.pmcid) \in k_pdf_dir
    /\ ~k_dry
    /\ k_out' = Copy2(k_out, CopyDest, SrcName(CopyItem.pmcid))
    /\ k_copied' = k_copied + 1
    /\ k_log' = Append(k_log, CopyLine(TRUE))
    /\ k_pos' = k_pos + 1
    /\ UNCHANGED <<k_pc, k_map, k_pdf_dir, k_out0, k_dry, k_missing,
                   uvars, cvars, xvars, hvars, runvars>>

\* return copied, missing
CopyReturn ==
    /\ k_pc = "loop"
    /\ k_pos = Len(k_map)
    /\ k_pc' = "returned"
    /\ UNCHANGED <<k_map, k_pdf_dir, k_out, k_out0, k_dry, k_pos, k_copied, k_missing,
                   k_log, uvars, cvars, xvars, hvars, runvars>>

NextCopy == CopyMissing \/ CopyDryRun \/ CopyFile \/ CopyReturn

SpecCopy == InitCopy /\ [][NextCopy]_vars

\* ----------------------------------------------------------------------
\* SpecUnit: download_pmc_pdf called, again and again, on one identifier
\* ----------------------------------------------------------------------
InitUnit == UnitIdle /\ ChooseIdle /\ ExtractIdle /\ RunIdle /\ HttpIdle /\ CopyIdle

UnitCall ==
    /\ u_pc = "idle"
    /\ \E scen \in (IF ExistsNonEmpty(u_file) THEN RerunScenarios ELSE Scenarios) :
          /\ u_scen' = scen
          /\ u_res' = download_pmc_pdf(u_file, scen)
    /\ u_pc' = "returned"
    /\ UNCHANGED <<u_file, cvars, xvars, runvars, hvars, kvars>>

\* the next call finds what the previous one left
UnitAgain ==
    /\ u_pc = "returned"
    /\ u_pc' = "idle"
    /\ u_file' = u_res.file
    /\ u_scen' = NoScen
    /\ u_res' = NoRes
    /\ UNCHANGED <<cvars, xvars, runvars, hvars, kvars>>

NextUnit == UnitCall \/ UnitAgain

SpecUnit == InitUnit /\ [][NextUnit]_vars

\* ----------------------------------------------------------------------
\* SpecChoose: _choose_best_pdf applied to a list of members
\* ----------------------------------------------------------------------
InitChoose ==
    /\ UnitIdle /\ ExtractIdle /\ RunIdle /\ HttpIdle /\ CopyIdle
    /\ c_pc = "idle"
    /\ c_members \in MemberLists(Members, MaxChoose)
    /\ c_best = NoMember

ChooseCall ==
    /\ c_pc = "idle"
    /\ c_best' = _choose_best_pdf(c_members)
    /\ c_pc' = "returned"
    /\ UNCHANGED <<c_members, uvars, xvars, runvars, hvars, kvars>>

NextChoose == ChooseCall

SpecChoose == InitChoose /\ [][NextChoose]_vars

\* ----------------------------------------------------------------------
\* SpecExtract: the generator _extract_pmcids_from_values, one value a turn
\* ----------------------------------------------------------------------
\* a maximal identifier lies at s[i..j]: PMC in any case, then all the digits
IsIdAt(s, i, j) ==
    /\ i + 3 <= j /\ j <= Len(s)
    /\ Upper(SubSeq(s, i, i + 2)) = <<"P", "M", "C">>
    /\ \A k \in (i + 3)..j : s[k] \in Digits
    /\ (j < Len(s) => s[j + 1] \notin Digits)

Embedded(s) == {ij \in (1..Len(s)) \X (1..Len(s)) : IsIdAt(s, ij[1], ij[2])}

RECURSIVE InOrder(_, _)
\* the identifiers at the spans S of s, from left to right
InOrder(s, S) ==
    IF S = {} THEN <<>>
    ELSE LET ij == CHOOSE a \in S : \A b \in S : a[1] <= b[1] IN
         <<SubSeq(s, ij[1], ij[2])>> \o InOrder(s, S \ {ij})

AppendNew(q, e) == IF e \in Range(q) THEN q ELSE Append(q, e)

RECURSIVE AppendAllNew(_, _)
AppendAllNew(q, es) ==
    IF es = <<>> THEN q ELSE AppendAllNew(AppendNew(q, Head(es)), Tail(es))

UpperAll(q) == [k \in DOMAIN q |-> Upper(q[k])]

\* the identifiers embedded in each text, from left to right, as written
IdsOf == [val \in Texts |-> InOrder(val, Embedded(val))]

InitExtract == UnitIdle /\ ChooseIdle /\ ExtractIdle /\ RunIdle /\ HttpIdle /\ CopyIdle

ExtractNext ==
    /\ x_n < MaxVals
    /\ \E val \in Texts :
          LET ids == IdsOf[val] IN
          /\ x_st' = ExtractStep(x_st, val)
          /\ x_first' = IF ids = <<>> THEN x_first ELSE AppendNew(x_first, Upper(ids[1]))
          /\ x_all' = AppendAllNew(x_all, UpperAll(ids))
          /\ x_raw' = IF ids = <<>> THEN x_raw ELSE x_raw \cup {ids[1]}
          /\ x_miss' = IF ids = <<>> THEN x_miss + 1 ELSE x_miss
    /\ x_n' = x_n + 1
    /\ UNCHANGED <<uvars, cvars, runvars, hvars, kvars>>

NextExtract == ExtractNext

SpecExtract == InitExtract /\ [][NextExtract]_vars

\* ----------------------------------------------------------------------
\* SpecHttp: _http_get called on a URL, against a server that answers each
\* attempt in one of the ways of AttemptOutcomes
\* ----------------------------------------------------------------------
\* the URLs _http_get is given: the resolution service, and the links of a
\* record (an ftp link to another host stays an ftp link)
HttpUrls == {ApiUrl, _ftp_to_https(Url("ftp", NCBI_FTP_HOST, "/pub/pmc/x")),
             _ftp_to_https(Url("ftp", "ftp.example.org", "/x"))}

ServerOutcomes == [1..MAX_RETRIES -> AttemptOutcomes]

InitHttp ==
    /\ UnitIdle /\ ChooseIdle /\ ExtractIdle /\ RunIdle /\ CopyIdle
    /\ h_pc = "idle"
    /\ h_url \in HttpUrls
    /\ h_outs \in ServerOutcomes
    /\ h_res = NoResponse

HttpCall ==
    /\ h_pc = "idle"
    /\ h_res' = _http_get(h_url, h_outs)
    /\ h_pc' = "returned"
    /\ UNCHANGED <<h_url, h_outs, uvars, cvars, xvars, runvars, kvars>>

\* the caller calls again, for another URL
HttpAgain ==
    /\ h_pc = "returned"
    /\ h_pc' = "idle"
    /\ h_url' \in HttpUrls
    /\ h_outs' \in ServerOutcomes
    /\ h_res' = NoResponse
    /\ UNCHANGED <<uvars, cvars, xvars, runvars, kvars>>

NextHttp == HttpCall \/ HttpAgain

SpecHttp == InitHttp /\ [][NextHttp]_vars

\* ----------------------------------------------------------------------
\* Spec: the main block, run MaxRuns times in a row; SpecPool: the same, over
\* a table of more identifiers than the pool has workers
\* ----------------------------------------------------------------------
\* os.path.join(OUTPUT_DIR, f"{pmcid.upper()}.pdf")
OutPdf(pmcid) == Upper(pmcid)

Running == {i \in DOMAIN unit : unit[i] = "running"}

\* ThreadPoolExecutor(max_workers=MAX_CONCURRENT) runs no more at a time
WorkerAvailable_unbounded == TRUE

WorkerAvailable == Cardinality(Running) < MAX_CONCURRENT

RECURSIVE SelectSeq2(_, _)
\* the identifiers of q whose output file is not there or is empty
SelectSeq2(q, d) ==
    IF q = <<>> THEN <<>>
    ELSE IF ExistsNonEmpty(d[OutPdf(Head(q))]) THEN SelectSeq2(Tail(q), d)
    ELSE <<Head(q)>> \o SelectSeq2(Tail(q), d)

\* load_pmcids(CSV_FILE), or [] on FileNotFoundError; any other exception
\* leaves the main block, and the program ends there.  The counters are set.
Load ==
    /\ m_pc = "load"
    /\ LET loaded == load_pmcids(csv) IN
       IF loaded.raised \in {"none", "FileNotFoundError"}
       THEN /\ pmcids' = loaded.unique
            /\ m_pc' = "partition"
       ELSE /\ pmcids' = pmcids
            /\ m_pc' = "crashed"
    /\ ok_count' = 0
    /\ fail_count' = 0
    /\ missing_pmcids' = <<>>
    /\ UNCHANGED <<to_process, next_sub, evars, runs_left, disk, ledger, pvars,
                   net_used, disk0, prev_ledger, ledger_writes, uvars, cvars, xvars, hvars, kvars>>

\* the loop that skips the files already downloaded
Partition ==
    /\ m_pc = "partition"
    /\ to_process' = SelectSeq2(pmcids, disk)
    /\ ok_count' = ok_count + (Len(pmcids) - Len(SelectSeq2(pmcids, disk)))
    /\ next_sub' = 0
    /\ m_pc' = IF SelectSeq2(pmcids, disk) = <<>> THEN "ledger" ELSE "submit"
    /\ UNCHANGED <<pmcids, fail_count, missing_pmcids, evars, runs_left, disk, ledger,
                   pvars, net_used, disk0, prev_ledger, ledger_writes, uvars, cvars, xvars, hvars, kvars>>

\* ex.submit(download_pmc_pdf, pmcid), for the next pmcid of to_process
Submit ==
    /\ m_pc = "submit"
    /\ next_sub < Len(to_process)
    /\ LET pmcid == to_process[next_sub + 1] IN
       /\ unit' = [unit EXCEPT ![pmcid] = "queued"]
       /\ submits' = [submits EXCEPT ![pmcid] = @ + 1]
    /\ next_sub' = next_sub + 1
    /\ m_pc' = IF next_sub + 1 = Len(to_process) THEN "collect" ELSE "submit"
    /\ UNCHANGED <<pmcids, to_process, ok_count, fail_count, missing_pmcids, uret, evars,
                   runs_left, disk, ledger, net_used, disk0, prev_ledger, ledger_writes,
                   uvars, cvars, xvars, hvars, kvars>>

\* the work queue of the pool is first in, first out
FirstQueued(i) ==
    \E k \in 1..next_sub :
        /\ to_process[k] = i
        /\ unit[i] = "queued"
        /\ \A j \in 1..(k - 1) : unit[to_process[j]] # "queued"

\* a worker thread of the pool takes the unit
Start(i) ==
    /\ FirstQueued(i)
    /\ WorkerAvailable
    /\ unit' = [unit EXCEPT ![i] = "running"]
    /\ UNCHANGED <<uret, submits, mvars, evars, runs_left, disk, ledger, net_used,
                   disk0, prev_ledger, ledger_writes, uvars, cvars, xvars, hvars, kvars>>

\* the worker runs download_pmc_pdf(pmcid) to its end
Finish(i) ==
    /\ unit[i] = "running"
    /\ \E scen \in env :
          LET out == OutPdf(NormalizePmcid(i))
              res == download_pmc_pdf(disk[out], scen)
          IN  /\ disk' = [disk EXCEPT ![out] = res.file]
              /\ uret' = [uret EXCEPT ![i] = res.ret]
              /\ net_used' = (net_used \/ res.api_gets + res.pdf_gets + res.tgz_gets > 0)
    /\ unit' = [unit EXCEPT ![i] = "finished"]
    /\ UNCHANGED <<submits, mvars, evars, runs_left, ledger, disk0, prev_ledger, ledger_writes,
                   uvars, cvars, xvars, hvars, kvars>>

AllCollected(u) == \A k \in DOMAIN to_process : u[to_process[k]] = "collected"

\* one turn of "for fut in as_completed(...)", with fut.result() not guarded:
\* the exception of a worker leaves the main block
Collect_unguarded(i) ==
    /\ m_pc = "collect"
    /\ unit[i] = "finished"
    /\ unit' = [unit EXCEPT ![i] = "collected"]
    /\ IF uret[i] = "raise"
       THEN /\ m_pc' = "aborted"
            /\ UNCHANGED <<missing_pmcids, ok_count, fail_count>>
       ELSE /\ missing_pmcids' = IF uret[i] # "True" THEN Append(missing_pmcids, i)
                                 ELSE missing_pmcids
            /\ ok_count' = ok_count + (IF uret[i] = "True" THEN 1 ELSE 0)
            /\ fail_count' = fail_count + (IF uret[i] = "True" THEN 0 ELSE 1)
            /\ m_pc' = IF AllCollected(unit') THEN "ledger" ELSE "collect"
    /\ UNCHANGED <<pmcids, to_process, next_sub, uret, submits, evars, runs_left, disk,
                   ledger, net_used, disk0, prev_ledger, ledger_writes, uvars, cvars, xvars, hvars, kvars>>

\* one turn of "for fut in as_completed(...)", which lists only the units that
\* returned False
Collect_listfalse(i) ==
    /\ m_pc = "collect"
    /\ unit[i] = "finished"
    /\ LET ok == (uret[i] = "True") IN
       /\ missing_pmcids' = IF uret[i] = "False" THEN Append(missing_pmcids, i)
                             ELSE missing_pmcids
       /\ ok_count' = ok_count + (IF ok THEN 1 ELSE 0)
       /\ fail_count' = fail_count + (IF ok THEN 0 ELSE 1)
    /\ unit' = [unit EXCEPT ![i] = "collected"]
    /\ m_pc' = IF AllCollected(unit') THEN "ledger" ELSE "collect"
    /\ UNCHANGED <<pmcids, to_process, next_sub, uret, submits, evars, runs_left, disk,
                   ledger, net_used, disk0, prev_ledger, ledger_writes, uvars, cvars, xvars, hvars, kvars>>

\* one turn of "for fut in as_completed(...)", which counts only what it lists
Collect_miscount(i) ==
    /\ m_pc = "collect"
    /\ unit[i] = "finished"
    /\ LET ok == (uret[i] = "True") IN
       /\ missing_pmcids' = IF ~ok THEN Append(missing_pmcids, i) ELSE missing_pmcids
       /\ ok_count' = ok_count + (IF uret[i] = "False" THEN 0 ELSE 1)
       /\ fail_count' = fail_count + (IF uret[i] = "False" THEN 1 ELSE 0)
    /\ unit' = [unit EXCEPT ![i] = "collected"]
    /\ m_pc' = IF AllCollected(unit') THEN "ledger" ELSE "collect"
    /\ UNCHANGED <<pmcids, to_process, next_sub, uret, submits, evars, runs_left, disk,
                   ledger, net_used, disk0, prev_ledger, ledger_writes, uvars, cvars, xvars, hvars, kvars>>

\* one turn of "for fut in as_completed(...)": fut.result() returns what the
\* worker returned, or raises what it raised, and then ok = False
Collect(i) ==
    /\ m_pc = "collect"
    /\ unit[i] = "finished"
    /\ LET ok == (uret[i] = "True") IN
       /\ missing_pmcids' = IF ~ok THEN Append(missing_pmcids, i) ELSE missing_pmcids
       /\ ok_count' = ok_count + (IF ok THEN 1 ELSE 0)
       /\ fail_count' = fail_count + (IF ok THEN 0 ELSE 1)
    /\ unit' = [unit EXCEPT ![i] = "collected"]
    /\ m_pc' = IF AllCollected(unit') THEN "ledger" ELSE "collect"
    /\ UNCHANGED <<pmcids, to_process, next_sub, uret, submits, evars, runs_left, disk,
                   ledger, net_used, disk0, prev_ledger, ledger_writes, uvars, cvars, xvars, hvars, kvars>>

\* missing_pmcids.txt is opened with "w" and written
WriteLedger ==
    /\ m_pc = "ledger"
    /\ prev_ledger' = ledger
    /\ ledger_writes' = ledger_writes + 1
    /\ ledger' = [written |-> TRUE, requested |-> Len(pmcids), succeeded |-> ok_count,
                  failed |-> fail_count, lines |-> missing_pmcids]
    /\ m_pc' = "done"
    /\ UNCHANGED <<pmcids, to_process, next_sub, ok_count, fail_count, missing_pmcids,
                   pvars, evars, runs_left, disk, net_used, disk0, uvars, cvars, xvars, hvars, kvars>>

\* the program is run again, over the same input and output directory, after
\* a run that reported no failure
Rerun ==
    /\ m_pc = "done"
    /\ runs_left > 0
    /\ ledger.failed = 0
    /\ runs_left' = runs_left - 1
    /\ m_pc' = "load"
    /\ pmcids' = <<>>
    /\ to_process' = <<>>
    /\ next_sub' = 0
    /\ ok_count' = 0
    /\ fail_count' = 0
    /\ missing_pmcids' = <<>>
    /\ unit' = [i \in DOMAIN unit |-> "none"]
    /\ uret' = [i \in DOMAIN uret |-> "none"]
    /\ submits' = [i \in DOMAIN submits |-> 0]
    /\ net_used' = FALSE
    /\ disk0' = disk
    /\ ledger_writes' = 0
    /\ UNCHANGED <<evars, disk, ledger, prev_ledger, uvars, cvars, xvars, hvars, kvars>>

Next ==
    \/ Load
    \/ Partition
    \/ Submit
    \/ \E i \in DOMAIN unit : Start(i)
    \/ \E i \in DOMAIN unit : Finish(i)
    \/ \E i \in DOMAIN unit : Collect(i)
    \/ WriteLedger
    \/ Rerun

Init ==
    /\ UnitIdle /\ ChooseIdle /\ ExtractIdle /\ HttpIdle /\ CopyIdle
    /\ \E c \in {MissingCsv, EmptyCsv, Table(NumIds), HeaderTable(NumIds)} :
          \E d \in OldDisks(c) : RunStarts(c, RunScenarios, d)

Spec == Init /\ [][Next]_vars

InitPool ==
    /\ UnitIdle /\ ChooseIdle /\ ExtractIdle /\ HttpIdle /\ CopyIdle
    /\ RunStarts(Table(MAX_CONCURRENT + ExtraIds), PoolScenarios,
                 [i \in IdsOfCsv(Table(MAX_CONCURRENT + ExtraIds)) |-> NoFile])

\* SpecLive: the runs of Spec when nothing stops the program from outside:
\* the main thread and the workers of the pool go on taking their steps, and
\* every network attempt returns or times out (a unit that runs, finishes)
SpecLive == Init /\ [][Next]_vars /\ WF_vars(Next)

SpecPool == InitPool /\ [][Next]_vars

\* ----------------------------------------------------------------------
\* SpecLoad: the main block over tables of two columns whose cells name the
\* same articles again and again, in one spelling or another
\* ----------------------------------------------------------------------
LoadCells == {<<>>, <<"p", "m", "c", "1">>, <<"x", "P", "M", "C", "1", "/">>,
              <<"P", "M", "C", "2">>}

LoadRowSet == {<<a, b>> : a \in LoadCells, b \in LoadCells}

\* has_header says "header" only of a file that has a first row
LoadTables ==
    {[exists |-> TRUE, sniff |-> h, rows |-> q] :
        h \in {"plain"}, q \in MemberLists(LoadRowSet, MaxRows)} \cup
    {[exists |-> TRUE, sniff |-> h, rows |-> q] :
        h \in {"header"}, q \in MemberLists(LoadRowSet, MaxRows) \ {<<>>}}

InitLoad ==
    /\ UnitIdle /\ ChooseIdle /\ ExtractIdle /\ HttpIdle /\ CopyIdle
    /\ \E c \in LoadTables :
          RunStarts(c, PoolScenarios, [i \in IdsOfCsv(c) |-> NoFile])

SpecLoad == InitLoad /\ [][Next]_vars

\* ----------------------------------------------------------------------
\* Claims about one call of download_pmc_pdf (SpecUnit)
\* ----------------------------------------------------------------------
UnitReturned == u_pc = "returned"

\* the complete results the servers of a scenario hold: the whole body of the
\* direct file, and the bytes of each member of the archive
CompleteResults(scen) ==
    (IF "pdf" \in DOMAIN scen /\ "resp" \in DOMAIN scen.pdf
     THEN {FileOf(Content(scen.pdf.resp))} ELSE {}) \cup
    (IF "tgz" \in DOMAIN scen /\ "resp" \in DOMAIN scen.tgz
     THEN {FileOf(m.data) : m \in {scen.tgz.resp.parts[1][1].members[k] :
                                   k \in DOMAIN scen.tgz.resp.parts[1][1].members}}
     ELSE {})

\* C1 (as claimed): when download_pmc_pdf returns, the file at the final path
\* does not exist, or is the file that was there before the call, or holds a
\* complete result -- never a partially written one.
C1_NoPartialFile ==
    UnitReturned =>
        \/ ~u_res.file.exists
        \/ u_res.file = u_file
        \/ u_res.file \in CompleteResults(u_scen)

\* C2: an output file that exists and is non-empty makes the call return the
\* skipped outcome (a success) with no GET of any kind and the file unchanged.
C2_SkipNoNetwork ==
    (UnitReturned /\ u_file.exists /\ Len(u_file.data) > 0) =>
        /\ u_res.ret = "True"
        /\ u_res.msg = "skipped"
        /\ u_res.api_gets = 0 /\ u_res.pdf_gets = 0 /\ u_res.tgz_gets = 0
        /\ u_res.file = u_file

C2_Witness ==
    /\ UnitReturned /\ u_file.exists /\ Len(u_file.data) > 0
    /\ u_res.msg = "skipped"
    /\ "pdf" \in DOMAIN u_scen /\ u_scen.pdf.fails = 0

\* the archive server of a scenario delivers an archive that extraction accepts
ArchiveSucceeds(scen) ==
    /\ "tgz" \in DOMAIN scen
    /\ scen.tgz.fails < MAX_RETRIES
    /\ scen.tgz.resp.fail_at = 0
    /\ LET a == scen.tgz.resp.parts[1][1] IN
       /\ a.readable /\ a.read_ok
       /\ \E k \in DOMAIN a.members : IsPdfMember(a.members[k])

\* the direct-file route of a scenario was tried and failed
DirectFailed(scen) == "pdf" \in DOMAIN scen /\ scen.pdf \in PdfFailed

\* C3: with both URLs resolved, a direct download that fails and an archive
\* download and extraction that succeed end in success, and the output file
\* holds the bytes of the archive member chosen.
C3_FallbackToArchive ==
    (UnitReturned /\ ~ExistsNonEmpty(u_file) /\ DirectFailed(u_scen) /\ ArchiveSucceeds(u_scen)) =>
        /\ u_res.ret = "True"
        /\ u_res.msg = "extracted"
        /\ u_res.file = FileOf(_choose_best_pdf(u_scen.tgz.resp.parts[1][1].members).data)

C3_Witness ==
    /\ UnitReturned /\ ~ExistsNonEmpty(u_file)
    /\ DirectFailed(u_scen) /\ u_scen.pdf.fails = MAX_RETRIES
    /\ ArchiveSucceeds(u_scen)
    /\ u_res.pdf_gets = MAX_RETRIES
    /\ u_res.ret = "True" /\ Len(u_res.file.data) > 0

\* the document of a scenario names neither a direct file nor an archive
NeitherUrl(scen) ==
    /\ "xml" \in DOMAIN scen
    /\ scen.xml.wellformed
    /\ \/ scen.xml.records = <<>>
       \/ \A k \in DOMAIN scen.xml.records[1] :
             scen.xml.records[1][k].format \notin {"pdf", "tgz"}

\* C4: a resolution result with neither URL ends in failure: nothing raised,
\* no GET of a file or an archive, no resolution attempt after the one that
\* answered, and the output path left as it was.
C4_NeitherUrlFails ==
    (UnitReturned /\ ~ExistsNonEmpty(u_file) /\ NeitherUrl(u_scen)) =>
        /\ u_res.ret = "False"
        /\ u_res.msg = "no_oa"
        /\ u_res.pdf_gets = 0 /\ u_res.tgz_gets = 0
        /\ u_res.api_gets = u_scen.api + 1
        /\ u_res.file = u_file

C4_Witness ==
    /\ UnitReturned /\ u_file = NoFile /\ NeitherUrl(u_scen)
    /\ u_scen.xml.records = <<>>
    /\ u_res.ret = "False" /\ ~u_res.file.exists

\* ----------------------------------------------------------------------
\* Claims about _choose_best_pdf (SpecChoose)
\* ----------------------------------------------------------------------
\* the name ends in .pdf, whatever the case of its letters
PdfName(name) ==
    /\ Len(name) >= 4
    /\ name[Len(name) - 3] = "."
    /\ name[Len(name) - 2] \in {"p", "P"}
    /\ name[Len(name) - 1] \in {"d", "D"}
    /\ name[Len(name)] \in {"f", "F"}

Qualifying(members) == {k \in DOMAIN members : members[k].isfile /\ PdfName(members[k].name)}

\* C5: _choose_best_pdf returns None when no regular file is named *.pdf, and
\* otherwise the first, in archive order, of the largest regular files named
\* *.pdf.
C5_LargestPdfFirstOnTies ==
    c_pc = "returned" =>
        LET Q == Qualifying(c_members) IN
        IF Q = {} THEN c_best = NoMember
        ELSE \E k \in Q :
                /\ c_best = c_members[k]
                /\ \A j \in Q : c_members[j].size <= c_members[k].size
                /\ \A j \in Q : j < k => c_members[j].size < c_members[k].size

\* two .pdf files of the same, largest size and a larger file that is no .pdf
C5_Witness ==
    /\ c_pc = "returned"
    /\ Len(c_members) = 3
    /\ c_members[1].name = NameTxt /\ c_members[1].isfile /\ c_members[1].size = MaxSize
    /\ c_members[2].name = NameB /\ c_members[2].isfile /\ c_members[2].size = 1
    /\ c_members[3].name = NameA /\ c_members[3].isfile /\ c_members[3].size = 1
    /\ c_best = c_members[2]

\* ----------------------------------------------------------------------
\* Claims about _extract_pmcids_from_values (SpecExtract)
\* ----------------------------------------------------------------------
NoRepeats(q) == \A a, b \in DOMAIN q : a # b => q[a] # q[b]

UpperCased(id) == \A k \in DOMAIN id : id[k] \in {"P", "M", "C"} \cup Digits

\* C6 (as claimed): every identifier embedded in the values is yielded, once,
\* upper-cased, in order of first appearance.
C6_EveryEmbeddedId == x_st.out = x_all

\* C6 (amended): the generator yields the first identifier of each value that
\* holds one, upper-cased, once, in order of first appearance; a value that
\* holds none adds nothing.
C6_FirstIdOfEachValue ==
    /\ x_st.out = x_first
    /\ NoRepeats(x_st.out)
    /\ \A k \in DOMAIN x_st.out : UpperCased(x_st.out[k])

\* the same identifier written in two ways and a value with none: one yield
C6_Witness ==
    /\ x_n = 3 /\ x_miss = 1
    /\ Cardinality(x_raw) = 2
    /\ Len(x_st.out) = 1

\* ----------------------------------------------------------------------
\* Claims about a run of the main block (Spec, SpecPool)
\* ----------------------------------------------------------------------
RunDone == m_pc = "done"

\* K: the identifiers whose output file the run found non-empty
PreSatisfied == {i \in Range(pmcids) : disk0[OutPdf(i)].exists /\ Len(disk0[OutPdf(i)].data) > 0}

ReturnedTrue == {i \in DOMAIN uret : uret[i] = "True"}

ReturnedOther == {i \in DOMAIN uret : uret[i] \in {"False", "raise"}}

\* C7: after all the workers of a run, the ledger says Requested = N,
\* Succeeded = K + the units that returned success, Failed = the units that did
\* not, Succeeded + Failed = N, and it lists N - Succeeded identifiers.
C7_LedgerCounts ==
    RunDone =>
        /\ ledger.requested = Cardinality(DOMAIN disk)
        /\ ledger.succeeded = Cardinality(PreSatisfied) + Cardinality(ReturnedTrue)
        /\ ledger.failed = Cardinality(ReturnedOther)
        /\ ledger.succeeded + ledger.failed = ledger.requested
        /\ Len(ledger.lines) = ledger.requested - ledger.succeeded

\* a run with a file already there, a new success, a failure and an exception
C7_Witness ==
    /\ RunDone
    /\ Cardinality(PreSatisfied) >= 1
    /\ Cardinality(ReturnedTrue) >= 1
    /\ Cardinality(ReturnedOther) >= 1
    /\ ledger.requested = NumIds

\* C8 (as claimed): a run that follows a run which reported no failure submits
\* nothing, sends no GET, leaves every output file as it was, and writes a
\* ledger with Succeeded = Requested, Failed = 0 and no identifier.
C8_SecondRunOnlySkips ==
    (RunDone /\ prev_ledger.written /\ prev_ledger.failed = 0) =>
        /\ \A i \in DOMAIN submits : submits[i] = 0
        /\ ~net_used
        /\ disk = disk0
        /\ ledger.succeeded = ledger.requested
        /\ ledger.failed = 0
        /\ ledger.lines = <<>>

\* C9: the exception of a worker never leaves the main block; the run ends
\* with every unit collected, the identifier of each unit that raised listed
\* in the ledger and counted as failed, and no unit that succeeded listed.
C9_WorkerExceptionIsAFailure ==
    /\ m_pc # "aborted"
    /\ RunDone =>
          /\ \A k \in DOMAIN to_process : unit[to_process[k]] = "collected"
          /\ \A i \in DOMAIN uret :
                /\ uret[i] = "raise" => i \in Range(ledger.lines)
                /\ uret[i] = "True" => i \notin Range(ledger.lines)
          /\ ledger.failed = Cardinality(ReturnedOther)

\* a unit raised, and another one, collected after it, succeeded
C9_Witness ==
    /\ RunDone
    /\ \E i, j \in DOMAIN uret :
          /\ uret[i] = "raise" /\ uret[j] = "True"
          /\ ledger.lines = <<i>>
          /\ ledger.succeeded >= 1

Submitted == {i \in DOMAIN submits : submits[i] > 0}

\* C10: never more than MAX_CONCURRENT units run at a time; an identifier is
\* submitted at most once, every identifier of to_process exactly once by the
\* time the results are collected, and none whose file was already there.
C10_BoundedPool ==
    /\ Cardinality(Running) <= MAX_CONCURRENT
    /\ \A i \in DOMAIN submits : submits[i] <= 1
    /\ m_pc \in {"collect", "ledger", "done"} => Submitted = Range(to_process)
    /\ \A i \in DOMAIN submits :
          (disk0[OutPdf(i)].exists /\ Len(disk0[OutPdf(i)].data) > 0) =>
              submits[i] = 0 /\ unit[i] = "none"

\* the pool is full and a submitted unit waits
C10_Witness ==
    /\ Cardinality(Running) = MAX_CONCURRENT
    /\ \E i \in DOMAIN unit : unit[i] = "queued" /\ submits[i] = 1

\* ----------------------------------------------------------------------
\* Claims about _http_get (SpecHttp)
\* ----------------------------------------------------------------------
\* the attempts of the call the server answers with a 2xx response
OkAttempts == {k \in 1..MAX_RETRIES :
                 h_url.scheme \in {"http", "https"} /\ h_outs[k] = "ok"}

\* the error attempt k ends with
ErrorOf(k) ==
    IF h_url.scheme \in {"http", "https"} THEN h_outs[k] ELSE "invalid_schema"

\* C11: a call of _http_get makes at most MAX_RETRIES attempts; it returns at
\* the first attempt answered 2xx, every other answer being a failed attempt;
\* it sleeps RETRY_SLEEP, always the same, after each failed attempt but the
\* last; when every attempt fails it raises the error of the last one.
C11_HttpGetRetries ==
    h_pc = "returned" =>
        /\ h_res.attempts \in 1..MAX_RETRIES
        /\ h_res.raised = (OkAttempts = {})
        /\ \A k \in OkAttempts : h_res.attempts <= k
        /\ ~h_res.raised => h_res.attempts \in OkAttempts
        /\ h_res.raised =>
              /\ h_res.attempts = MAX_RETRIES
              /\ h_res.err = [kind |-> ErrorOf(MAX_RETRIES), at |-> MAX_RETRIES]
        /\ h_res.waits = [k \in 1..(IF h_res.raised THEN MAX_RETRIES - 1
                                     ELSE h_res.attempts - 1) |-> RETRY_SLEEP]

\* a call whose attempts all failed, the first and the last in different ways
C11_Witness ==
    /\ h_pc = "returned"
    /\ h_res.raised
    /\ h_res.err.kind = "http_error"
    /\ h_outs[1] = "timeout"
    /\ Len(h_res.waits) = MAX_RETRIES - 1

\* ----------------------------------------------------------------------
\* More claims about a run of the main block (Spec)
\* ----------------------------------------------------------------------
\* the run is over: the main block reached its end, or an exception left it
RunEnded == m_pc \in {"done", "crashed", "aborted"}

AllSubmittedCollected ==
    /\ next_sub = Len(to_process)
    /\ \A i \in DOMAIN submits : submits[i] > 0 => unit[i] = "collected"

\* C12 (as claimed): a run writes the ledger once and no more, after every
\* unit it submitted is collected; the ledger holds what this run counted and
\* listed and nothing of an earlier ledger; every run that is over has
\* written it, and a run without its input file has written 0, 0, 0.
C12_LedgerOncePerRun ==
    /\ ledger_writes <= 1
    /\ ledger_writes = 1 =>
          /\ AllSubmittedCollected
          /\ ledger = [written |-> TRUE, requested |-> Len(pmcids),
                       succeeded |-> ok_count, failed |-> fail_count,
                       lines |-> missing_pmcids]
    /\ RunEnded => ledger_writes = 1
    /\ (RunEnded /\ ~csv.exists) =>
          ledger = [written |-> TRUE, requested |-> 0, succeeded |-> 0,
                    failed |-> 0, lines |-> <<>>]

\* ----------------------------------------------------------------------
\* More claims about one call of download_pmc_pdf (SpecUnit)
\* ----------------------------------------------------------------------
\* C13 (as claimed): whenever download_pmc_pdf returns True, by the skip
\* check, the direct route or the archive route, the file at the final path
\* exists and is not empty.
C13_SuccessMeansNonEmptyFile ==
    (UnitReturned /\ u_res.ret = "True") => ExistsNonEmpty(u_res.file)

\* the call did not report success: it returned False or raised
UnitFailed == UnitReturned /\ u_res.ret \in {"False", "raise"}

\* C14 (as claimed): a call that found no file at the final path and does not
\* report success leaves no zero-byte file there.
C14_NoEmptyFileAfterFailure ==
    (UnitFailed /\ ~u_file.exists) =>
        ~(u_res.file.exists /\ Len(u_res.file.data) = 0)

\* the body of the direct file (of the archive) broke off while it was streamed
DirectStreamCut ==
    /\ u_res.pdf_gets > 0
    /\ "resp" \in DOMAIN u_scen.pdf
    /\ u_scen.pdf.resp.fail_at # 0

ArchiveStreamCut ==
    /\ u_res.tgz_gets > 0
    /\ "resp" \in DOMAIN u_scen.tgz
    /\ u_scen.tgz.resp.fail_at # 0

\* C15 (as claimed): a download whose body breaks off while it is streamed is
\* tried again until MAX_RETRIES GETs were sent for it; only then has the
\* route failed.
C15_StreamFailureRetried ==
    UnitReturned =>
        /\ DirectStreamCut => u_res.pdf_gets = MAX_RETRIES
        /\ ArchiveStreamCut => u_res.tgz_gets = MAX_RETRIES

\* the place of identifier i in the sequence q
PlaceIn(q, i) == CHOOSE k \in DOMAIN q : q[k] = i

\* C16: when a run is over, the failure list of its ledger holds an identifier
\* if and only if the identifier was submitted and its unit did not return
\* success; it holds each once, and none whose file was already there.
C16_FailureListIffNotSucceeded ==
    RunDone =>
        /\ \A i \in DOMAIN uret :
              (i \in Range(ledger.lines)) <=> (submits[i] > 0 /\ uret[i] # "True")
        /\ Range(ledger.lines) \subseteq Range(pmcids)
        /\ \A j, k \in DOMAIN ledger.lines : j # k => ledger.lines[j] # ledger.lines[k]
        /\ \A i \in PreSatisfied : i \notin Range(ledger.lines)

\* two units failed and were collected in the order opposite to the one they
\* were submitted in, next to one that succeeded
C16_Witness ==
    /\ RunDone
    /\ Len(ledger.lines) = 2
    /\ PlaceIn(to_process, ledger.lines[1]) > PlaceIn(to_process, ledger.lines[2])
    /\ \E i \in DOMAIN uret : uret[i] = "True"

\* ----------------------------------------------------------------------
\* Claims about load_pmcids and the run that follows it (SpecLoad)
\* ----------------------------------------------------------------------
\* the cells of the rows the reader yields: <<row, column>>
CellPlaces(rows) == UNION {{<<j, k>> : k \in DOMAIN rows[j]} : j \in DOMAIN rows}

\* the identifier of a cell: the first one embedded in its text, upper-cased
HoldsId(t) == IdsOf[t] # <<>>

CellId(t) == Upper(IdsOf[t][1])

\* the cells that hold identifier id
PlacesOf(rows, id) ==
    {p \in CellPlaces(rows) :
        HoldsId(rows[p[1]][p[2]]) /\ CellId(rows[p[1]][p[2]]) = id}

\* cell p is read before cell q
ReadBefore(p, q) == p[1] < q[1] \/ (p[1] = q[1] /\ p[2] < q[2])

FirstPlaceOf(rows, id) ==
    CHOOSE p \in PlacesOf(rows, id) :
        \A q \in PlacesOf(rows, id) : p = q \/ ReadBefore(p, q)

\* the identifiers of the cells of the rows
IdsIn(rows) ==
    {CellId(rows[p[1]][p[2]]) :
        p \in {q \in CellPlaces(rows) : HoldsId(rows[q[1]][q[2]])}}

Loaded == m_pc \notin {"load", "crashed"}

\* C17: the list load_pmcids returns holds every identifier of the cells of
\* the rows once, in the order their first cells are read; in the run that
\* follows no identifier is submitted twice and no two units that run at the
\* same time have the same output path.
C17_LoadedOnceInOrder ==
    /\ Loaded =>
          /\ NoRepeats(pmcids)
          /\ Range(pmcids) = IdsIn(ReaderRows(csv))
          /\ \A a, b \in DOMAIN pmcids :
                a < b => ReadBefore(FirstPlaceOf(ReaderRows(csv), pmcids[a]),
                                    FirstPlaceOf(ReaderRows(csv), pmcids[b]))
    /\ \A i \in DOMAIN submits : submits[i] <= 1
    /\ \A i, j \in Running :
          i # j => OutPdf(NormalizePmcid(i)) # OutPdf(NormalizePmcid(j))

\* a table that names an article in two cells of a row and again in a later
\* row, after another article; the units of the two articles run together
C17_Witness ==
    /\ Len(pmcids) = 2
    /\ Cardinality(Running) = 2
    /\ \E j \in DOMAIN ReaderRows(csv) :
          /\ Cardinality(PlacesOf(ReaderRows(csv), pmcids[1])) >= 3
          /\ <<j, 1>> \in PlacesOf(ReaderRows(csv), pmcids[1])
          /\ <<j, 2>> \in PlacesOf(ReaderRows(csv), pmcids[1])

\* ----------------------------------------------------------------------
\* Claims about the progress of a run (SpecLive)
\* ----------------------------------------------------------------------
\* the run reached its end with its ledger written, every unit it submitted
\* collected, and one outcome counted for each
RunComplete ==
    /\ RunDone
    /\ ledger_writes = 1
    /\ AllSubmittedCollected
    /\ ok_count + fail_count = Cardinality(PreSatisfied) + Cardinality(Submitted)
    /\ Cardinality(ReturnedTrue) + Cardinality(ReturnedOther) = Cardinality(Submitted)

\* C18 (as claimed): every run that starts comes to its end, with one outcome
\* recorded for each identifier it submitted, whatever the other units did,
\* and with the ledger written.
C18_EveryRunCompletes == (m_pc = "load") ~> RunComplete

\* ----------------------------------------------------------------------
\* Claims about the archive route and the GETs of one call (SpecUnit)
\* ----------------------------------------------------------------------
\* the call went the archive route: it sent a GET for the archive
ArchiveRouteTaken == UnitReturned /\ u_res.tgz_gets > 0

\* C19: when a call that went the archive route returns, whether it extracted
\* a PDF, found none, could not read the archive, or failed to download it,
\* nothing is left at the temporary path the archive was written to.
C19_TempArchiveGone ==
    ArchiveRouteTaken =>
        /\ ~u_res.tmp.exists
        /\ u_res.msg \in {"extracted", "no_pdf_in_tgz", "tgz_error"}

\* the download of the archive broke off after the temporary file was opened
C19_Witness ==
    /\ ArchiveRouteTaken
    /\ ArchiveStreamCut
    /\ u_res.msg = "tgz_error"
    /\ ~u_res.tmp.exists

\* the resolution call of the scenario ends with a response
ResolutionSucceeds(scen) == scen.api < MAX_RETRIES

\* C20: one call sends at most MAX_RETRIES GETs to each of the resolution
\* service, the direct file and the archive, so at most 3 * MAX_RETRIES in all;
\* it sends none for a file or an archive unless the resolution call got its
\* response; a failed resolution gives False; and no GET for the archive
\* follows a direct download that succeeded.
C20_GetBudget ==
    UnitReturned =>
        /\ u_res.api_gets <= MAX_RETRIES
        /\ u_res.pdf_gets <= MAX_RETRIES
        /\ u_res.tgz_gets <= MAX_RETRIES
        /\ u_res.api_gets + u_res.pdf_gets + u_res.tgz_gets <= 3 * MAX_RETRIES
        /\ (u_res.pdf_gets + u_res.tgz_gets > 0) =>
              (ResolutionSucceeds(u_scen) /\ u_res.api_gets = u_scen.api + 1)
        /\ (u_res.api_gets > 0 /\ ~ResolutionSucceeds(u_scen)) =>
              /\ u_res.ret = "False"
              /\ u_res.api_gets = MAX_RETRIES
              /\ u_res.pdf_gets = 0 /\ u_res.tgz_gets = 0
        /\ u_res.msg = "direct" => u_res.tgz_gets = 0

\* a call that used its whole budget: 3 * MAX_RETRIES GETs
C20_Witness ==
    /\ UnitReturned
    /\ u_res.api_gets = MAX_RETRIES
    /\ u_res.pdf_gets = MAX_RETRIES
    /\ u_res.tgz_gets = MAX_RETRIES

\* ----------------------------------------------------------------------
\* Claims about copy_pdfs_for_map (SpecCopy)
\* ----------------------------------------------------------------------
CopyReturned == k_pc = "returned"

\* the identifiers of the items the loop has been through
CopySeen == {k_map[j].pmcid : j \in 1..k_pos}

\* the identifiers whose file was copied, and those only said to be
CopiedIds == {k_log[j].pmcid : j \in {a \in DOMAIN k_log : k_log[a].copied}}

WouldCopyIds == {k_log[j].pmcid : j \in {a \in DOMAIN k_log : ~k_log[a].copied}}

\* the title the map gives identifier id
TitleOf(id) == (CHOOSE it \in Range(k_map) : it.pmcid = id).title

\* a file that was in out_dir before the call is there, as it was, and no two
\* copies went to the same name
NothingOverwritten ==
    /\ \A n \in DOMAIN k_out0 : n \in DOMAIN k_out /\ k_out[n] = k_out0[n]
    /\ \A a, b \in DOMAIN k_log :
          (a # b /\ k_log[a].copied /\ k_log[b].copied) => k_log[a].dest # k_log[b].dest
    /\ \A a \in DOMAIN k_log :
          k_log[a].copied =>
              /\ k_log[a].dest \in DOMAIN k_out
              /\ k_out[k_log[a].dest] = SrcName(k_log[a].pmcid)

\* the destination of line a is the title's own name when that was free, and
\* else the name with the first suffix " (i)", i = 1, 2, ..., that was free
FirstFreeName(a) ==
    LET base == _sanitize_filename(TitleOf(k_log[a].pmcid))
        taken == k_log[a].before
    IN  /\ k_log[a].dest \notin taken
        /\ \/ k_log[a].dest = base \o DotPdf
           \/ /\ base \o DotPdf \in taken
              /\ \E i \in 1..(Cardinality(taken) + 1) :
                    /\ k_log[a].dest = Suffixed(base, DotPdf, i)
                    /\ \A j \in 1..(i - 1) : Suffixed(base, DotPdf, j) \in taken

\* C21 (as claimed): no file of out_dir is overwritten, a title that is taken
\* gets the first free suffix; every identifier of the map is copied or
\* listed as missing, never both; with dry_run no file is copied and the count
\* is 0.
C21_CopiedOrMissing ==
    /\ NothingOverwritten
    /\ \A a \in DOMAIN k_log : FirstFreeName(a)
    /\ CopiedIds \cap Range(k_missing) = {}
    /\ CopyReturned => CopiedIds \cup Range(k_missing) = {it.pmcid : it \in Range(k_map)}
    /\ k_dry => (k_out = k_out0 /\ k_copied = 0)

\* C21 (amended): no file of out_dir is overwritten, a title that is taken
\* gets the first free suffix, so the copies go to distinct names; without
\* dry_run every identifier of the map is copied or listed as missing, never
\* both, and the count is the number of copies; with dry_run the identifiers
\* whose source is there are only reported, neither copied nor listed as
\* missing, no file is copied and the count is 0.
C21_CopiedOrMissingUnlessDryRun ==
    /\ NothingOverwritten
    /\ \A a \in DOMAIN k_log : FirstFreeName(a)
    /\ CopiedIds \cap Range(k_missing) = {}
    /\ WouldCopyIds \cap Range(k_missing) = {}
    /\ k_copied = Cardinality(CopiedIds)
    /\ Range(k_missing) = {i \in CopySeen : SrcName(i) \notin k_pdf_dir}
    /\ ~k_dry => (WouldCopyIds = {} /\ CopiedIds \cup Range(k_missing) = CopySeen)
    /\ k_dry =>
          /\ k_out = k_out0 /\ k_copied = 0 /\ CopiedIds = {}
          /\ WouldCopyIds = {i \in CopySeen : SrcName(i) \in k_pdf_dir}

\* two identifiers with the same sanitized title were copied, to two names,
\* next to a file of that title that was there before
C21_Witness ==
    /\ CopyReturned
    /\ ~k_dry
    /\ TitleA \o DotPdf \in DOMAIN k_out0
    /\ \E a, b \in DOMAIN k_log :
          /\ a < b
          /\ k_log[a].copied /\ k_log[b].copied
          /\ TitleOf(k_log[a].pmcid) # TitleOf(k_log[b].pmcid)
          /\ _sanitize_filename(TitleOf(k_log[a].pmcid)) =
                _sanitize_filename(TitleOf(k_log[b].pmcid))
          /\ k_log[a].dest # k_log[b].dest
          /\ k_out[TitleA \o DotPdf] = OldContent

====
